---- MODULE Spec2Model ----
(***************************************************************************)
(* moosecfg: a layered configuration resolver.                             *)
(*                                                                         *)
(* MooseConfigurator (src/moosecfg/core.py, with its near-duplicate        *)
(* MooseConfig in src/moosecfg/config.py) owns three MooseYamlSource       *)
(* objects (src/moosecfg/sources.py), one per tier, reads each tier's file *)
(* and folds the three mappings into the unified mapping `_obj`.           *)
(*                                                                         *)
(* The state is the part of the file system the sources look at, the       *)
(* class-level attributes of MooseConfigurator (the flags and `_obj`), and *)
(* the attributes of every Configurator and source object.                 *)
(*                                                                         *)
(* Keys and values are small integers.  A file's text is a sequence of     *)
(* lines, a line being a pair <<key, value>>; two reserved lines stand for *)
(* the flow mapping "{}" and for text the YAML parser rejects.             *)
(***************************************************************************)
EXTENDS Integers, Sequences, FiniteSets, TLC

\* ---------------------------------------------------------------- bounds
NumKeys == 3
NumValues == 2
NumInsts == 2
MaxDocKeys == 1
MaxCalls == 2
MaxEnvOps == 1
MaxFlagSets == 1
MaxDirs == 3

Keys == 1..NumKeys
Values == 1..NumValues
Insts == 1..NumInsts

\* The three tiers, in the order the Configurator walks them.
Tiers == {"system", "user", "local"}

\* The paths a source can be given.  A tier's name stands for its default
\* path (for local: the file name with the leading dot); "plain" is the
\* local file name without the dot.
Paths == Tiers \cup {"plain"}

\* ------------------------------------------------------------- mappings
\* A Python dict: a function from a finite set of keys to values.
EmptyMap == [k \in {} |-> 0]

MappingsOver(ks) == UNION {[d -> Values] : d \in SUBSET ks}

Mappings == MappingsOver(Keys)

\* The mappings the environment and the callers are drawn from.
SmallMappings == {m \in Mappings : Cardinality(DOMAIN m) <= MaxDocKeys}

\* A merge that adds colliding values instead of replacing them.
MergeAccumulating(a, b) ==
    [k \in (DOMAIN a) \cup (DOMAIN b) |->
        IF k \in DOMAIN b
        THEN IF k \in DOMAIN a /\ a[k] # b[k] THEN a[k] + b[k] ELSE b[k]
        ELSE a[k]]

\* dict.update(b) on a: every key of b is written, b wins on collision.
DictUpdate(a, b) ==
    [k \in (DOMAIN a) \cup (DOMAIN b) |->
        IF k \in DOMAIN b THEN b[k] ELSE a[k]]

\* dict.setdefault(k, v) on a: written only when k is absent.
DictSetDefault(a, k, v) ==
    [x \in (DOMAIN a) \cup {k} |-> IF x \in DOMAIN a THEN a[x] ELSE v]

\* ------------------------------------------------------------ YAML codec
FlowEmptyLine == <<0, 0>>
BadLine == <<0, 1>>

SetMin(s) == CHOOSE x \in s : \A y \in s : x <= y

RECURSIVE DumpLines(_, _)
DumpLines(m, ks) ==
    IF ks = {} THEN <<>>
    ELSE LET k == SetMin(ks)
         IN <<<<k, m[k]>>>> \o DumpLines(m, ks \ {k})

\* A dump that writes nothing for the empty mapping.
SafeDumpNoFlow(m) == DumpLines(m, DOMAIN m)

\* yaml.safe_dump(m): "{}" for the empty mapping, else one "key: value"
\* line per key, keys sorted.
SafeDump(m) ==
    IF DOMAIN m = {} THEN <<FlowEmptyLine>> ELSE DumpLines(m, DOMAIN m)

RECURSIVE LoadLines(_, _)
LoadLines(text, acc) ==
    IF text = <<>> THEN acc
    ELSE LoadLines(Tail(text), DictUpdate(acc, Head(text)[1] :> Head(text)[2]))

\* yaml.safe_load(text): None for a document with no data, a YAMLError for
\* text that does not parse, else the mapping (a repeated key keeps its last
\* value).
SafeLoad(text) ==
    IF text = <<>> THEN [kind |-> "none", m |-> EmptyMap]
    ELSE IF text = <<FlowEmptyLine>> THEN [kind |-> "map", m |-> EmptyMap]
    ELSE IF \E i \in 1..Len(text) : text[i][1] \notin Keys
         THEN [kind |-> "error", m |-> EmptyMap]
    ELSE [kind |-> "map", m |-> LoadLines(text, EmptyMap)]

\* The texts the environment puts into a file: a dumped mapping, an empty
\* file, or text that does not parse.
EnvTexts == {SafeDump(m) : m \in SmallMappings} \cup {<<>>, <<BadLine>>}

\* ----------------------------------------------------------- file system
\* One location per tier.  kind: "nodir" (the parent directory is missing),
\* "nofile" (the directory exists, the file does not), "file" (a regular
\* file with permission bits r, w and its text).
NoDir == [kind |-> "nodir", r |-> FALSE, w |-> FALSE, text |-> <<>>]
NoFile == [kind |-> "nofile", r |-> FALSE, w |-> FALSE, text |-> <<>>]
File(r, w, text) == [kind |-> "file", r |-> r, w |-> w, text |-> text]

\* ---------------------------------------------------------------- flags
\* A flag holds a Python value: the bool True or False, or the text of an
\* environment variable.
FlagNames ==
    {"UPDATE_AT_INIT", "SYSTEM_OVERRIDE", "LOCAL_FILE_LOAD", "LOCAL_FILE_HIDDEN"}

FlagDefault(f) == IF f = "SYSTEM_OVERRIDE" THEN "False" ELSE "True"

\* os.getenv(name, default): the variable's text when set, else default.
Getenv(env, f, default) == IF env[f] = "unset" THEN default ELSE env[f]

\* Python truthiness of a flag value: False and the empty text are false.
Truthy(v) == v \notin {"False", "str_empty"}

VARIABLES
    fs,          \* [Paths -> file]: the file at each path
    flags,       \* class attributes UPDATE_AT_INIT, SYSTEM_OVERRIDE, ...
    obj,         \* MooseConfigurator._obj
    constructed, \* [Insts -> BOOLEAN]: the Configurator object exists
    defaults,    \* [Insts -> mapping]: self._defaults
    src,         \* [Insts -> [Tiers -> mapping]]: each source's obj
    meta,        \* [Insts -> [Tiers -> mapping]]: each source's meta
    location,    \* [Insts -> path]: self.local.location
    joins,       \* MooseDirs._joins
    dirs,        \* the MooseDirs objects made, with their arguments
    last,        \* the latest call on a Configurator or a source
    used         \* how many calls, file changes and flag writes so far

vars == <<fs, flags, obj, constructed, defaults, src, meta, location, joins,
         dirs, last, used>>


\* ------------------------------------------------------- MooseYamlSource
IsReadable(f) == f.kind = "file" /\ f.r

\* is_writable that also accepts a file that could be created.
IsWritableOrCreatable(f) == f.kind # "file" \/ f.w

IsWritable(f) == f.kind = "file" /\ f.w

\* read(): _data starts as {}; an existing file is opened (PermissionError
\* when it may not be read) and decoded (YAMLError when it does not parse);
\* self.obj = _data.copy() raises AttributeError when the decoder gave None.
\* A raise leaves obj as it was.
SourceRead(f, o) ==
    IF f.kind # "file" THEN [raised |-> FALSE, obj |-> EmptyMap]
    ELSE IF ~f.r THEN [raised |-> TRUE, obj |-> o]
    ELSE LET d == SafeLoad(f.text)
         IN IF d.kind = "map" THEN [raised |-> FALSE, obj |-> d.m]
            ELSE [raised |-> TRUE, obj |-> o]

\* write(): the parent directory is created when missing; obj overwritten
\* by meta is dumped into the file, which open(..., 'w') creates when it is
\* absent and refuses (PermissionError) when it exists and is not writable.
SourceWrite(f, o, mt) ==
    IF f.kind = "file" /\ ~f.w THEN [raised |-> TRUE, file |-> f]
    ELSE [raised |-> FALSE,
          file |-> File(IF f.kind = "file" THEN f.r ELSE TRUE, TRUE,
                        SafeDump(DictUpdate(o, mt)))]

\* ----------------------------------------------------- MooseConfigurator
FreshSources == [t \in Tiers |-> EmptyMap]

\* local_full_path: computed from the class flag at every access.
LocalFullPath == IF Truthy(flags["LOCAL_FILE_HIDDEN"]) THEN "local" ELSE "plain"

\* The location _init_sources() gave the source of tier t of Configurator c.
PathOf(c, t) == IF t = "local" THEN location[c] ELSE t

\* the class-level dict every instance reaches through self._obj
ObjOf(c) == obj

\* update_from_defaults(): setdefault for every key of the defaults.
RECURSIVE DefaultsLoop(_, _, _)
DefaultsLoop(o, d, ks) ==
    IF ks = {} THEN o
    ELSE LET k == CHOOSE x \in ks : TRUE
         IN DefaultsLoop(DictSetDefault(o, k, d[k]), d, ks \ {k})

UpdateFromDefaults(o, d) == DefaultsLoop(o, d, DOMAIN d)

\* One "if tier.is_readable [and flag]: tier.read()" statement of read().
\* st: raised (an earlier statement raised, the rest is skipped), s (the
\* three sources' obj), tiers (the tiers whose read() was called), order
\* (the same, in the order of the calls).  p is the source's location.
ReadStep(st, t, p, gate) ==
    IF st.raised \/ ~(IsReadable(fs[p]) /\ gate) THEN st
    ELSE LET r == SourceRead(fs[p], st.s[t])
         IN [raised |-> r.raised,
             s |-> [st.s EXCEPT ![t] = r.obj],
             tiers |-> st.tiers \cup {t},
             order |-> Append(st.order, t)]

\* read() on sources holding s, the local one at location lp.
ReadAll(s, lp) ==
    ReadStep(ReadStep(ReadStep([raised |-> FALSE, s |-> s, tiers |-> {},
                                order |-> <<>>],
                               "system", "system", TRUE),
                      "user", "user", TRUE),
             "local", lp, Truthy(flags["LOCAL_FILE_LOAD"]))

\* update() that always applies system last.
UpdateObjSystemLast(o, s, override) ==
    DictUpdate(DictUpdate(DictUpdate(o, s["user"]), s["local"]), s["system"])

\* update() that rebuilds the mapping from the sources alone.
UpdateObjFromSources(o, s, override) ==
    DictUpdate(DictUpdate(s["system"], s["user"]), s["local"])

\* update(): system, user, local, and system again under SYSTEM_OVERRIDE.
UpdateObj(o, s, override) ==
    LET merged == DictUpdate(DictUpdate(DictUpdate(o, s["system"]), s["user"]),
                             s["local"])
    IN IF override THEN DictUpdate(merged, s["system"]) ELSE merged

\* A write() statement that persists the unified mapping.
WriteStepUnified(st, c, t, gate) ==
    IF st.raised \/ ~(IsWritable(st.fs[PathOf(c, t)]) /\ gate) THEN st
    ELSE LET w == SourceWrite(st.fs[PathOf(c, t)], obj, meta[c][t])
         IN [raised |-> w.raised,
             fs |-> [st.fs EXCEPT ![PathOf(c, t)] = w.file],
             tiers |-> st.tiers \cup {t}]

\* One "if tier.is_writable [and flag]: tier.write()" statement of write().
WriteStep(st, c, t, gate) ==
    IF st.raised \/ ~(IsWritable(st.fs[PathOf(c, t)]) /\ gate) THEN st
    ELSE LET w == SourceWrite(st.fs[PathOf(c, t)], src[c][t], meta[c][t])
         IN [raised |-> w.raised,
             fs |-> [st.fs EXCEPT ![PathOf(c, t)] = w.file],
             tiers |-> st.tiers \cup {t}]

WriteAll(c) ==
    WriteStep(WriteStep(WriteStep([raised |-> FALSE, fs |-> fs, tiers |-> {}],
                                  c, "system", TRUE),
                        c, "user", TRUE),
              c, "local", Truthy(flags["LOCAL_FILE_LOAD"]))

\* ------------------------------------------------------------ bookkeeping
\* The latest call: its name, the object it was made on, whether it raised,
\* the tiers whose read() or write() it called (for a call on a stand-alone
\* source: its location, when the source reported is_readable before a
\* read, is_writable before a write), whether it ran update(), the truth
\* value of SYSTEM_OVERRIDE that update() saw, and its place in a run: the
\* n-th update() in succession on c (same flag value, no other call in
\* between), or 2 for a source's read() that directly follows another
\* source's successful write().  stages: what the call did, in order:
\* <<"defaults", "-">>, <<"read", tier>>, <<"merge", tier>>.
Call(op, c, raised, tiers, updated, override, run) ==
    [op |-> op, c |-> c, raised |-> raised, tiers |-> tiers,
     updated |-> updated, override |-> override, run |-> run,
     stages |-> <<>>]

ReadStages(order) == [i \in 1..Len(order) |-> <<"read", order[i]>>]

\* update(): the sources in the order they are applied.
MergeOrder(override) ==
    <<"system", "user", "local">> \o (IF override THEN <<"system">> ELSE <<>>)

MergeStages(override) ==
    [i \in 1..Len(MergeOrder(override)) |-> <<"merge", MergeOrder(override)[i]>>]

CanCall == used.calls < MaxCalls

Spend(what) == used' = [used EXCEPT ![what] = @ + 1]

\* A step that is a call (the other steps are the environment's and the
\* flag writes, which leave `last` alone).
IsCall == used'.calls # used.calls

\* ---------------------------------------------------------------- Init
\* The process has imported the module with no environment variable set,
\* so the flags have their defaults; no Configurator exists.
NoEnv == [f \in FlagNames |-> "unset"]

InitProcess ==
    /\ flags = [f \in FlagNames |-> Getenv(NoEnv, f, FlagDefault(f))]
    /\ obj = EmptyMap
    /\ constructed = [c \in Insts |-> FALSE]
    /\ defaults = [c \in Insts |-> EmptyMap]
    /\ src = [c \in Insts |-> FreshSources]
    /\ meta = [c \in Insts |-> FreshSources]
    /\ location = [c \in Insts |-> "local"]
    /\ joins = <<>>
    /\ dirs = <<>>
    /\ last = Call("init", 0, FALSE, {}, FALSE, FALSE, 0)
    /\ used = [calls |-> 0, env |-> 0, flags |-> 0]

\* A tier that is not installed has no directory (system, user) or no file
\* (local: the working directory exists).
Absent(t) == IF t \in {"local", "plain"} THEN NoFile ELSE NoDir

\* Every tier is absent or a readable, writable file holding a dumped
\* mapping; the working directory holds no local file without the dot.
Init ==
    /\ fs \in [Paths -> {NoDir, NoFile}
                        \cup {File(TRUE, TRUE, SafeDump(m)) : m \in SmallMappings}]
    /\ \A t \in Paths : fs[t].kind # "file" => fs[t] = Absent(t)
    /\ fs["plain"] = NoFile
    /\ InitProcess

\* ------------------------------------------------- Configurator actions
\* MooseConfigurator(name, defaults=d).  A raise in read() leaves the
\* caller without an object; what was written to the class-level _obj
\* before the raise stays.  Objects are numbered in the order they are made.
Construct(c, d) ==
    /\ CanCall
    /\ ~constructed[c]
    /\ \A b \in Insts : b < c => constructed[b]
    /\ LET o1 == IF DOMAIN d # {} THEN UpdateFromDefaults(ObjOf(c), d) ELSE ObjOf(c)
           rd == ReadAll(FreshSources, LocalFullPath)
           upd == Truthy(flags["UPDATE_AT_INIT"])
           ovr == Truthy(flags["SYSTEM_OVERRIDE"])
           st1 == (IF DOMAIN d # {} THEN <<<<"defaults", "-">>>> ELSE <<>>)
                  \o ReadStages(rd.order)
       IN IF rd.raised
          THEN /\ obj' = o1
               /\ UNCHANGED <<constructed, defaults, src, location>>
               /\ last' = [Call("construct", c, TRUE, rd.tiers, FALSE, FALSE, 0)
                             EXCEPT !.stages = st1]
          ELSE /\ obj' = IF upd THEN UpdateObj(o1, rd.s, ovr) ELSE o1
               /\ constructed' = [constructed EXCEPT ![c] = TRUE]
               /\ defaults' = [defaults EXCEPT ![c] = d]
               /\ src' = [src EXCEPT ![c] = rd.s]
               /\ location' = [location EXCEPT ![c] = LocalFullPath]
               /\ last' = [Call("construct", c, FALSE, rd.tiers, upd, upd /\ ovr,
                                IF upd THEN 1 ELSE 0)
                             EXCEPT !.stages =
                                st1 \o (IF upd THEN MergeStages(ovr) ELSE <<>>)]
    /\ Spend("calls")
    /\ UNCHANGED <<fs, flags, meta, joins, dirs>>

\* cfg.read()
Read(c) ==
    /\ CanCall
    /\ constructed[c]
    /\ LET rd == ReadAll(src[c], location[c])
       IN /\ src' = [src EXCEPT ![c] = rd.s]
          /\ last' = [Call("read", c, rd.raised, rd.tiers, FALSE, FALSE, 0)
                        EXCEPT !.stages = ReadStages(rd.order)]
    /\ Spend("calls")
    /\ UNCHANGED <<fs, flags, obj, constructed, defaults, meta, location, joins, dirs>>

\* cfg.update()
Update(c) ==
    /\ CanCall
    /\ constructed[c]
    /\ LET ovr == Truthy(flags["SYSTEM_OVERRIDE"])
       IN /\ obj' = UpdateObj(ObjOf(c), src[c], ovr)
          /\ last' = [Call("update", c, FALSE, {}, TRUE, ovr,
                           IF last.c = c /\ last.updated /\ last.override = ovr
                           THEN 2 ELSE 1)
                        EXCEPT !.stages = MergeStages(ovr)]
    /\ Spend("calls")
    /\ UNCHANGED <<fs, flags, constructed, defaults, src, meta, location, joins, dirs>>

\* cfg.write()
Write(c) ==
    /\ CanCall
    /\ constructed[c]
    /\ LET wr == WriteAll(c)
       IN /\ fs' = wr.fs
          /\ last' = Call("write", c, wr.raised, wr.tiers, FALSE, FALSE, 0)
    /\ Spend("calls")
    /\ UNCHANGED <<flags, obj, constructed, defaults, src, meta, location, joins, dirs>>

\* MooseConfigurator.FLAG = True / False, as the demo applications do.
SetFlag(f, v) ==
    /\ used.flags < MaxFlagSets
    /\ flags[f] # v
    /\ flags' = [flags EXCEPT ![f] = v]
    /\ Spend("flags")
    /\ UNCHANGED <<fs, obj, constructed, defaults, src, meta, location, joins, dirs, last>>

Next ==
    \/ \E c \in Insts, d \in SmallMappings : Construct(c, d)
    \/ \E c \in Insts : Read(c)
    \/ \E c \in Insts : Update(c)
    \/ \E c \in Insts : Write(c)
    \/ \E f \in FlagNames, v \in {"True", "False"} : SetFlag(f, v)

\* A process whose files no other program touches.
Spec == Init /\ [][Next]_vars

\* ---------------------------------------------------------- environment
\* Another program writes, removes or re-modes a tier's file.
EnvWrite(t, text) ==
    /\ used.env < MaxEnvOps
    /\ fs' = [fs EXCEPT ![t] = File(IF @.kind = "file" THEN @.r ELSE TRUE,
                                    IF @.kind = "file" THEN @.w ELSE TRUE,
                                    text)]
    /\ fs' # fs
    /\ Spend("env")
    /\ UNCHANGED <<flags, obj, constructed, defaults, src, meta, location, joins, dirs, last>>

EnvRemove(t) ==
    /\ used.env < MaxEnvOps
    /\ fs[t].kind = "file"
    /\ fs' = [fs EXCEPT ![t] = NoFile]
    /\ Spend("env")
    /\ UNCHANGED <<flags, obj, constructed, defaults, src, meta, location, joins, dirs, last>>

EnvChmod(t, r, w) ==
    /\ used.env < MaxEnvOps
    /\ fs[t].kind = "file"
    /\ fs' = [fs EXCEPT ![t] = File(r, w, @.text)]
    /\ fs' # fs
    /\ Spend("env")
    /\ UNCHANGED <<flags, obj, constructed, defaults, src, meta, location, joins, dirs, last>>

\* The document an installed tier holds when the process starts.
InstalledDoc == [k \in {SetMin(Keys)} |-> SetMin(Values)]

InitEnv ==
    /\ fs \in [Paths -> {NoDir, NoFile, File(TRUE, TRUE, SafeDump(InstalledDoc))}]
    /\ \A t \in Paths : fs[t].kind # "file" => fs[t] = Absent(t)
    /\ fs["plain"] = NoFile
    /\ InitProcess

NextEnv ==
    \/ \E c \in Insts, d \in SmallMappings : Construct(c, d)
    \/ \E c \in Insts : Read(c)
    \/ \E c \in Insts : Update(c)
    \/ \E c \in Insts : Write(c)
    \/ \E f \in FlagNames, v \in {"True", "False"} : SetFlag(f, v)
    \/ \E t \in Paths, text \in EnvTexts : EnvWrite(t, text)
    \/ \E t \in Paths : EnvRemove(t)
    \/ \E t \in Paths, r \in BOOLEAN, w \in BOOLEAN : EnvChmod(t, r, w)

\* A process whose files other programs change while it runs.
SpecEnv == InitEnv /\ [][NextEnv]_vars

\* ---------------------------------------------------------- process start
\* What an environment variable of a flag can hold when the process
\* starts: nothing, or a text.
EnvVarValues == {"unset", "str_False", "str_0", "str_True"}

\* The local file's document: system's key with another value.
LocalDoc == [k \in {SetMin(Keys)} |-> NumValues]

\* The module is imported under some environment; system and local are
\* installed and give one key different values.
InitStart ==
    /\ fs = [p \in Paths |->
                IF p = "system" THEN File(TRUE, TRUE, SafeDump(InstalledDoc))
                ELSE IF p = "local" THEN File(TRUE, TRUE, SafeDump(LocalDoc))
                ELSE Absent(p)]
    /\ \E env \in [FlagNames -> EnvVarValues] :
          flags = [f \in FlagNames |-> Getenv(env, f, FlagDefault(f))]
    /\ obj = EmptyMap
    /\ constructed = [c \in Insts |-> FALSE]
    /\ defaults = [c \in Insts |-> EmptyMap]
    /\ src = [c \in Insts |-> FreshSources]
    /\ meta = [c \in Insts |-> FreshSources]
    /\ location = [c \in Insts |-> "local"]
    /\ joins = <<>>
    /\ dirs = <<>>
    /\ last = Call("init", 0, FALSE, {}, FALSE, FALSE, 0)
    /\ used = [calls |-> 0, env |-> 0, flags |-> 0]

\* A process started under any environment.
SpecStart == InitStart /\ [][Next]_vars

\* ------------------------------------------------- a running application
\* cfg.<tier>.meta = m, an assignment by the application.
SetMeta(c, t, m) ==
    /\ used.flags < MaxFlagSets
    /\ constructed[c]
    /\ meta[c][t] # m
    /\ meta' = [meta EXCEPT ![c][t] = m]
    /\ Spend("flags")
    /\ UNCHANGED <<fs, flags, obj, constructed, defaults, src, location, joins,
                   dirs, last>>

\* The defaults the application passes, when it passes any.
AppDefaults == [k \in {NumKeys} |-> SetMin(Values)]

\* The application has made its first Configurator, with defaults d and
\* the default flags, from the installed files: the state __init__ leaves.
InitReload ==
    /\ fs \in [Paths -> {NoDir, NoFile, File(TRUE, TRUE, SafeDump(InstalledDoc))}]
    /\ \A t \in Paths : fs[t].kind # "file" => fs[t] = Absent(t)
    /\ fs["plain"] = NoFile
    /\ flags = [f \in FlagNames |-> Getenv(NoEnv, f, FlagDefault(f))]
    /\ \E d \in {EmptyMap, AppDefaults} :
        LET rd == ReadAll(FreshSources, LocalFullPath)
            o1 == IF DOMAIN d # {} THEN UpdateFromDefaults(EmptyMap, d) ELSE EmptyMap
        IN /\ obj = UpdateObj(o1, rd.s, FALSE)
           /\ defaults = [c \in Insts |-> IF c = 1 THEN d ELSE EmptyMap]
           /\ src = [c \in Insts |-> IF c = 1 THEN rd.s ELSE FreshSources]
           /\ last = [Call("construct", 1, FALSE, rd.tiers, TRUE, FALSE, 1)
                        EXCEPT !.stages =
                            (IF DOMAIN d # {} THEN <<<<"defaults", "-">>>> ELSE <<>>)
                            \o ReadStages(rd.order) \o MergeStages(FALSE)]
    /\ constructed = [c \in Insts |-> c = 1]
    /\ meta = [c \in Insts |-> FreshSources]
    /\ location = [c \in Insts |-> "local"]
    /\ joins = <<>>
    /\ dirs = <<>>
    /\ used = [calls |-> 0, env |-> 0, flags |-> 0]

NextReload ==
    \/ \E c \in Insts : Read(c)
    \/ \E c \in Insts : Update(c)
    \/ \E c \in Insts : Write(c)
    \/ \E f \in FlagNames, v \in {"True", "False"} : SetFlag(f, v)
    \/ \E c \in Insts, t \in Tiers, m \in SmallMappings : SetMeta(c, t, m)
    \/ \E t \in Paths, text \in EnvTexts : EnvWrite(t, text)
    \/ \E t \in Paths : EnvRemove(t)
    \/ \E t \in Paths, r \in BOOLEAN, w \in BOOLEAN : EnvChmod(t, r, w)

\* A running application, with the one Configurator it made, whose files
\* other programs change.
SpecReload == InitReload /\ [][NextReload]_vars

\* -------------------------------------------------- stand-alone sources
\* MooseYamlSource objects used on their own, all on one location (the
\* local one): src[c]["local"] and meta[c]["local"] are the obj and meta
\* of source c.  Source 1 holds a mapping and a meta the application gave
\* it; source 2 is fresh.
Loc == "local"

\* MooseYamlSource(name, location): obj and meta are the class's empty dicts.
SrcNew(c) ==
    /\ CanCall
    /\ src' = [src EXCEPT ![c][Loc] = EmptyMap]
    /\ meta' = [meta EXCEPT ![c][Loc] = EmptyMap]
    /\ last' = Call("srcnew", c, FALSE, {}, FALSE, FALSE, 0)
    /\ Spend("calls")
    /\ UNCHANGED <<fs, flags, obj, constructed, defaults, location, joins, dirs>>

\* source.read()
SrcRead(c) ==
    /\ CanCall
    /\ LET rd == SourceRead(fs[Loc], src[c][Loc])
       IN /\ src' = [src EXCEPT ![c][Loc] = rd.obj]
          /\ last' = Call("srcread", c, rd.raised,
                          IF IsReadable(fs[Loc]) THEN {Loc} ELSE {},
                          FALSE, FALSE,
                          IF last.op = "srcwrite" /\ ~last.raised /\ last.c # c
                          THEN 2 ELSE 0)
    /\ Spend("calls")
    /\ UNCHANGED <<fs, flags, obj, constructed, defaults, meta, location, joins, dirs>>

\* source.write()
SrcWrite(c) ==
    /\ CanCall
    /\ LET wr == SourceWrite(fs[Loc], src[c][Loc], meta[c][Loc])
       IN /\ fs' = [fs EXCEPT ![Loc] = wr.file]
          /\ last' = Call("srcwrite", c, wr.raised,
                          IF IsWritable(fs[Loc]) THEN {Loc} ELSE {},
                          FALSE, FALSE, 0)
    /\ Spend("calls")
    /\ UNCHANGED <<flags, obj, constructed, defaults, src, meta, location, joins, dirs>>

InitSource ==
    /\ fs \in [Paths -> {NoDir, NoFile}
                        \cup {File(r, w, text) :
                                r \in BOOLEAN, w \in BOOLEAN, text \in EnvTexts}]
    /\ \A t \in Paths \ {Loc} : fs[t] = Absent(t)
    /\ flags = [f \in FlagNames |-> Getenv(NoEnv, f, FlagDefault(f))]
    /\ obj = EmptyMap
    /\ constructed = [c \in Insts |-> FALSE]
    /\ defaults = [c \in Insts |-> EmptyMap]
    /\ \E m \in Mappings :
          src = [c \in Insts |->
                    [FreshSources EXCEPT ![Loc] = IF c = 1 THEN m ELSE EmptyMap]]
    /\ \E mt \in SmallMappings :
          meta = [c \in Insts |->
                    [FreshSources EXCEPT ![Loc] = IF c = 1 THEN mt ELSE EmptyMap]]
    /\ location = [c \in Insts |-> Loc]
    /\ joins = <<>>
    /\ dirs = <<>>
    /\ last = Call("init", 0, FALSE, {}, FALSE, FALSE, 0)
    /\ used = [calls |-> 0, env |-> 0, flags |-> 0]

NextSource ==
    \/ \E c \in Insts : SrcNew(c)
    \/ \E c \in Insts : SrcRead(c)
    \/ \E c \in Insts : SrcWrite(c)

SpecSource == InitSource /\ [][NextSource]_vars

\* -------------------------------------------------------------- MooseDirs
\* (src/moosecfg/utils.py)  A path is the sequence of its components.
DirNames == {"app1", "app2"}

\* The append argument: "none" when it is not supplied.
Appends == {"none", "dev", "prod"}

\* MooseDirs(name, append): the name, and the qualifier when supplied, are
\* appended to the class-level list _joins.
DirsInit(name, append) ==
    /\ Len(dirs) < MaxDirs
    /\ joins' = Append(joins, name)
                \o (IF append # "none" THEN <<append>> ELSE <<>>)
    /\ dirs' = Append(dirs, [name |-> name, append |-> append])
    /\ UNCHANGED <<fs, flags, obj, constructed, defaults, src, meta, location,
                   last, used>>

\* _join(location): location joined with every entry of _joins.
RECURSIVE DirsJoin(_, _)
DirsJoin(path, js) ==
    IF js = <<>> THEN path
    ELSE DirsJoin(Append(path, Head(js)), Tail(js))

\* The system_config and user_config properties (of any MooseDirs object).
SystemConfig == DirsJoin(<<"system_base">>, joins)
UserConfig == DirsJoin(<<"user_base">>, joins)

InitDirs ==
    /\ fs = [p \in Paths |-> Absent(p)]
    /\ InitProcess

NextDirs == \E name \in DirNames, append \in Appends : DirsInit(name, append)

SpecDirs == InitDirs /\ [][NextDirs]_vars

\* ------------------------------------------------------- claim helpers
\* The keys at least one tier of s defines.
TierKeys(s) == UNION {DOMAIN s[t] : t \in Tiers}

\* The value of the highest-ranked tier that defines k: local, then user,
\* then system.
ByRank(s, k) ==
    IF k \in DOMAIN s["local"] THEN s["local"][k]
    ELSE IF k \in DOMAIN s["user"] THEN s["user"][k]
    ELSE s["system"][k]

\* The same with the system tier ranked first.
BySystemFirst(s, k) ==
    IF k \in DOMAIN s["system"] THEN s["system"][k] ELSE ByRank(s, k)

PairwiseDisjoint(s) ==
    \A t, u \in Tiers : t # u => (DOMAIN s[t]) \cap (DOMAIN s[u]) = {}

\* a with the entries of d it lacks.
WithDefaults(a, d) ==
    [k \in (DOMAIN a) \cup (DOMAIN d) |-> IF k \in DOMAIN a THEN a[k] ELSE d[k]]

\* The latest call was made on c and ran update() to its end.
Merged(c) == last.c = c /\ last.updated /\ ~last.raised

\* ------------------------------------------------------------------ C1
\* C1: with SYSTEM_OVERRIDE disabled, once update() has run on a
\* Configurator every key defined by at least one of its tiers is in the
\* unified mapping with the value of the highest-ranked tier defining it,
\* local over user over system.
C1_LocalWinsByDefault ==
    \A c \in Insts :
        (Merged(c) /\ ~last.override) =>
            \A k \in TierKeys(src[c]) :
                k \in DOMAIN ObjOf(c) /\ ObjOf(c)[k] = ByRank(src[c], k)

\* update() has run with the override off on three tiers that all define
\* one key, local giving it another value than system and user.
C1_Witness ==
    \E c \in Insts, k \in Keys :
        /\ Merged(c) /\ ~last.override
        /\ \A t \in Tiers : k \in DOMAIN src[c][t]
        /\ src[c]["local"][k] # src[c]["system"][k]
        /\ src[c]["local"][k] # src[c]["user"][k]
        /\ ObjOf(c)[k] = src[c]["local"][k]

\* ------------------------------------------------------------------ C2
\* C2: a call that runs update() with SYSTEM_OVERRIDE enabled leaves every
\* key of the system tier with the system tier's value and every other
\* tier key with the value local-over-user gives it; the key set afterwards
\* is the one the merge without the override gives; and for pairwise
\* disjoint tiers (on a Configurator made without defaults) the unified
\* mapping afterwards is the union of the three tiers, under either flag
\* value.
C2_SystemOverride ==
    [][\A c \in Insts :
        (IsCall /\ last'.c = c /\ last'.updated) =>
            LET s == src'[c]
                before == IF last'.op = "construct"
                          THEN WithDefaults(obj, defaults'[c])
                          ELSE obj
            IN /\ TierKeys(s) \subseteq DOMAIN obj'
               /\ last'.override =>
                    \A k \in TierKeys(s) : obj'[k] = BySystemFirst(s, k)
               /\ DOMAIN obj' = DOMAIN UpdateObj(before, s, FALSE)
               /\ (PairwiseDisjoint(s) /\ defaults'[c] = EmptyMap) =>
                    obj' = [k \in TierKeys(s) |-> ByRank(s, k)]
      ]_vars

\* ------------------------------------------------------------------ C3
\* C3: after a construction that ran update(), every key of the defaults
\* passed in holds the tiers' value if a tier defines it and the default
\* otherwise.
C3_DefaultsLowestPriority ==
    \A c \in Insts :
        (Merged(c) /\ last.op = "construct") =>
            \A k \in DOMAIN defaults[c] :
                /\ k \in DOMAIN ObjOf(c)
                /\ ObjOf(c)[k] = IF k \in TierKeys(src[c])
                                 THEN IF last.override
                                      THEN BySystemFirst(src[c], k)
                                      ELSE ByRank(src[c], k)
                                 ELSE defaults[c][k]

\* ------------------------------------------------------------------ C4
\* C4: update() called again on the same Configurator, with no other call
\* in between and the same value of SYSTEM_OVERRIDE, leaves the unified
\* mapping as the first call left it.
C4_UpdateIdempotent ==
    [][(IsCall /\ last'.op = "update" /\ last'.run = 2) => obj' = obj]_vars

\* update() has run twice in succession on tiers that collide.
C4_Witness ==
    \E c \in Insts, k \in Keys, t \in Tiers, u \in Tiers :
        /\ Merged(c) /\ last.op = "update" /\ last.run = 2
        /\ k \in DOMAIN src[c][t] /\ k \in DOMAIN src[c][u]
        /\ src[c][t][k] # src[c][u][k]

\* ------------------------------------------------------------------ C5
\* C5: a call on one Configurator leaves the unified mapping seen through
\* every other Configurator as it was, and a Configurator just constructed
\* sees only keys of its own defaults and its own tiers.
C5_NoSharedState ==
    [][IsCall =>
        /\ \A c \in Insts :
              (constructed[c] /\ last'.c # c) => ObjOf(c)' = ObjOf(c)
        /\ \A c \in Insts :
              (last'.op = "construct" /\ last'.c = c /\ ~last'.raised) =>
                  DOMAIN ObjOf(c)' \subseteq (DOMAIN defaults'[c]) \cup TierKeys(src'[c])
      ]_vars

\* ------------------------------------------------------------------ C6
\* C6: with the local file not readable and LOCAL_FILE_LOAD true, read()
\* does not raise and leaves local.obj empty (also the read() the
\* constructor runs), and the update() that follows merges system and
\* user alone, user winning, into what the unified mapping held.
C6_MissingLocalFile ==
    [][\A c \in Insts :
        (/\ IsCall /\ last'.c = c
         /\ ~IsReadable(fs[IF last'.op = "construct" THEN LocalFullPath
                            ELSE location[c]])
         /\ Truthy(flags["LOCAL_FILE_LOAD"])) =>
            /\ last'.op \in {"read", "construct"} => ~last'.raised
            /\ (last'.op \in {"read", "construct"} /\ ~last'.raised) =>
                    src'[c]["local"] = EmptyMap
            /\ (last'.op = "construct" /\ last'.updated /\ ~last'.override) =>
                    obj' = DictUpdate(DictUpdate(WithDefaults(obj, defaults'[c]),
                                                 src'[c]["system"]),
                                      src'[c]["user"])
            /\ (/\ last'.op = "update" /\ ~last'.override
                /\ last.op = "read" /\ last.c = c /\ "local" \notin last.tiers) =>
                    obj' = DictUpdate(DictUpdate(obj, src[c]["system"]),
                                      src[c]["user"])
      ]_vars

\* ------------------------------------------------------------------ C7
\* C7: when a tier's read() raises inside Configurator.read(), read() is
\* still called on every other readable tier (local only under
\* LOCAL_FILE_LOAD), and a tier whose file decodes gets its mapping.
C7_ReadFailureIsolated ==
    [][\A c \in Insts :
        (IsCall /\ last'.c = c /\ last'.op = "read" /\ last'.raised) =>
            \A t \in Tiers :
                (IsReadable(fs[PathOf(c, t)])
                 /\ (t = "local" => Truthy(flags["LOCAL_FILE_LOAD"]))) =>
                    /\ t \in last'.tiers
                    /\ SafeLoad(fs[PathOf(c, t)].text).kind = "map" =>
                          src'[c][t] = SafeLoad(fs[PathOf(c, t)].text).m
      ]_vars

\* ------------------------------------------------------------------ C8
\* C8: read() on a location that is absent, or on a readable file whose
\* decoding yields no data, does not raise and sets obj to the empty
\* mapping.
C8_ReadNoData ==
    \A c \in Insts :
        (/\ last.op = "srcread" /\ last.c = c
         /\ \/ fs[Loc].kind # "file"
            \/ fs[Loc].r /\ SafeLoad(fs[Loc].text).kind = "none") =>
            ~last.raised /\ src[c][Loc] = EmptyMap

\* ------------------------------------------------------------------ C9
\* The mapping write() persists: obj overwritten by meta.
Persisted(c) ==
    [k \in (DOMAIN src[c][Loc]) \cup (DOMAIN meta[c][Loc]) |->
        IF k \in DOMAIN meta[c][Loc] THEN meta[c][Loc][k] ELSE src[c][Loc][k]]

\* C9 as stated: after write() on a writable file source, a fresh source
\* on the same location reads back obj overwritten by meta.
C9_RoundTripAnyWritable ==
    [][\A c \in Insts :
        (/\ IsCall /\ last'.op = "srcread" /\ last'.c = c /\ last'.run = 2
         /\ Loc \in last.tiers
         /\ src[c][Loc] = EmptyMap /\ meta[c][Loc] = EmptyMap) =>
            ~last'.raised /\ src'[c][Loc] = Persisted(last.c)
      ]_vars

\* C9 amended: the same, for a file that is also readable.
C9_RoundTrip ==
    [][\A c \in Insts :
        (/\ IsCall /\ last'.op = "srcread" /\ last'.c = c /\ last'.run = 2
         /\ Loc \in last.tiers
         /\ src[c][Loc] = EmptyMap /\ meta[c][Loc] = EmptyMap
         /\ fs[Loc].r) =>
            ~last'.raised /\ src'[c][Loc] = Persisted(last.c)
      ]_vars

\* A fresh source has read back what another source wrote: a mapping of
\* two keys, one of them overwritten by meta.
C9_Witness ==
    \E c \in Insts, w \in Insts, k \in Keys :
        /\ last.op = "srcread" /\ last.c = c /\ last.run = 2 /\ ~last.raised
        /\ w # c
        /\ Cardinality(DOMAIN src[w][Loc]) >= 2
        /\ k \in DOMAIN src[w][Loc] /\ k \in DOMAIN meta[w][Loc]
        /\ src[w][Loc][k] # meta[w][Loc][k]
        /\ src[c][Loc] = Persisted(w)
        /\ fs[Loc].text = SafeDump(Persisted(w))

\* ----------------------------------------------------------------- C10
\* C10: no call on a Configurator creates or removes a file or a
\* directory; write() calls a tier's write() only on a regular file that
\* is writable (local: only under LOCAL_FILE_LOAD) and leaves every other
\* tier's file as it was.
C10_WriteNeverCreates ==
    [][IsCall =>
        /\ \A p \in Paths : fs'[p].kind = fs[p].kind
        /\ last'.op = "write" =>
              /\ \A t \in last'.tiers :
                    /\ fs[PathOf(last'.c, t)].kind = "file"
                    /\ fs[PathOf(last'.c, t)].w
                    /\ t = "local" => Truthy(flags["LOCAL_FILE_LOAD"])
              /\ \A p \in Paths \ {PathOf(last'.c, t) : t \in last'.tiers} :
                    fs'[p] = fs[p]
      ]_vars

\* write() has run where one tier has no file, one tier's file is not
\* writable and one tier's file was written.
C10_Witness ==
    /\ last.op = "write" /\ ~last.raised
    /\ last.tiers # {}
    /\ \E t \in Tiers : fs[PathOf(last.c, t)].kind # "file"
    /\ \E t \in Tiers : /\ fs[PathOf(last.c, t)].kind = "file"
                         /\ ~fs[PathOf(last.c, t)].w
                         /\ t \notin last.tiers

\* ----------------------------------------------------------------- C11
\* C11: the flags are fixed for a Configurator once it is constructed.  The
\* local path it reports stays its local source's location whatever is
\* assigned to the class flags afterwards, and the first update(), read()
\* or write() after the construction acts on the flag values the
\* construction saw: update() re-applies system exactly when the
\* constructor's update() did, and read() and write() take the local tier
\* exactly when the constructor's read() did.
C11_FlagsImmutable ==
    [][/\ \A c \in Insts : constructed'[c] => LocalFullPath' = location'[c]
       /\ \A c \in Insts :
            (/\ IsCall /\ last'.c = c
             /\ last.op = "construct" /\ last.c = c /\ ~last.raised) =>
                /\ (last'.op = "update" /\ last.updated) =>
                        obj' = UpdateObj(obj, src[c], last.override)
                /\ (/\ last'.op = "read" /\ ~last'.raised
                    /\ IsReadable(fs[location[c]])) =>
                        ("local" \in last'.tiers <=> "local" \in last.tiers)
                /\ (/\ last'.op = "write" /\ ~last'.raised
                    /\ IsReadable(fs[location[c]])
                    /\ IsWritable(fs[location[c]])) =>
                        ("local" \in last'.tiers <=> "local" \in last.tiers)
      ]_vars

\* ----------------------------------------------------------------- C12
\* The location read() looks at for tier t in the call this step makes on c.
StepPath(c, t) ==
    IF last'.op = "construct" /\ t = "local" THEN LocalFullPath ELSE PathOf(c, t)

\* C12: after a read() on a Configurator (the constructor's included) a
\* tier whose read() was called and decoded its file holds the decoded
\* mapping, a tier whose file is not readable holds the empty mapping, and
\* any other tier (read() not reached, or raised) keeps what its last
\* successful read gave it.
C12_ObjIsLastRead ==
    [][\A c \in Insts :
        (/\ IsCall /\ last'.c = c
         /\ last'.op = "read" \/ (last'.op = "construct" /\ ~last'.raised)) =>
            \A t \in Tiers :
                LET f == fs[StepPath(c, t)]
                    before == IF last'.op = "construct" THEN EmptyMap
                              ELSE src[c][t]
                    decoded == t \in last'.tiers /\ SafeLoad(f.text).kind = "map"
                IN /\ decoded => src'[c][t] = SafeLoad(f.text).m
                   /\ ~IsReadable(f) => src'[c][t] = EmptyMap
                   /\ (IsReadable(f) /\ ~decoded) => src'[c][t] = before
      ]_vars

\* ----------------------------------------------------------------- C13
\* o overwritten by the tiers of s named in order, one after the other.
RECURSIVE ApplyInOrder(_, _, _)
ApplyInOrder(o, s, order) ==
    IF order = <<>> THEN o
    ELSE ApplyInOrder(DictUpdate(o, s[Head(order)]), s, Tail(order))

\* C13: a construction that returns ran its stages in this order: the
\* defaults (when given), then read() on system, user, local, each only if
\* its file is readable and local only under LOCAL_FILE_LOAD, then, under
\* UPDATE_AT_INIT, the merges of system, user, local and, only under
\* SYSTEM_OVERRIDE, system again; the unified mapping is the result of
\* these merges on top of the defaults, and without UPDATE_AT_INIT it
\* holds only the defaults.
C13_ConstructionStages ==
    [][\A c \in Insts :
        (IsCall /\ last'.op = "construct" /\ last'.c = c /\ ~last'.raised) =>
            LET d == defaults'[c]
                upd == Truthy(flags["UPDATE_AT_INIT"])
                Attempted(t) ==
                    /\ IsReadable(fs[StepPath(c, t)])
                    /\ t = "local" => Truthy(flags["LOCAL_FILE_LOAD"])
                reads == SelectSeq(<<"system", "user", "local">>, Attempted)
                merges == IF ~upd THEN <<>>
                          ELSE IF Truthy(flags["SYSTEM_OVERRIDE"])
                          THEN <<"system", "user", "local", "system">>
                          ELSE <<"system", "user", "local">>
            IN /\ last'.stages =
                      (IF d = EmptyMap THEN <<>> ELSE <<<<"defaults", "-">>>>)
                      \o [i \in 1..Len(reads) |-> <<"read", reads[i]>>]
                      \o [i \in 1..Len(merges) |-> <<"merge", merges[i]>>]
               /\ upd => obj' = ApplyInOrder(WithDefaults(obj, d), src'[c], merges)
               /\ ~upd => obj' = d
      ]_vars

\* ----------------------------------------------------------------- C14
\* C14: no step removes a key from the unified mapping: whatever read(),
\* update() or write() is called, every key present before is present
\* afterwards.
C14_KeysNeverLost == [][DOMAIN obj \subseteq DOMAIN obj']_vars

\* update() has run after the tiers were read again, and the unified
\* mapping still holds a key that neither the defaults nor any tier has.
C14_Witness ==
    \E c \in Insts, k \in Keys :
        /\ last.op = "update" /\ last.c = c
        /\ k \in DOMAIN obj
        /\ k \notin DOMAIN defaults[c]
        /\ k \notin TierKeys(src[c])
        /\ TierKeys(src[c]) # {}

\* ----------------------------------------------------------------- C15
\* Tier t's read() is called by a read() on c in the current state.
Gate(c, t) ==
    /\ IsReadable(fs[PathOf(c, t)])
    /\ t = "local" => Truthy(flags["LOCAL_FILE_LOAD"])

\* What the readable tiers' files of c hold now.
CurrentContents(c) ==
    [t \in Tiers |->
        IF Gate(c, t) /\ SafeLoad(fs[PathOf(c, t)].text).kind = "map"
        THEN SafeLoad(fs[PathOf(c, t)].text).m
        ELSE EmptyMap]

\* C15: an update() that directly follows a read() on the same
\* Configurator, the files being as that read() found them and
\* LOCAL_FILE_LOAD being on, leaves the
\* unified mapping equal to the defaults overwritten by the current
\* contents of the readable tiers in the order system, user, local (and
\* system again under SYSTEM_OVERRIDE), with nothing left from earlier
\* reads.
C15_FoldOfCurrentContents ==
    [][\A c \in Insts :
        (/\ IsCall /\ last'.op = "update" /\ last'.c = c
         /\ last.op = "read" /\ last.c = c /\ ~last.raised
         /\ Truthy(flags["LOCAL_FILE_LOAD"])
         /\ \A t \in Tiers : t \in last.tiers <=> Gate(c, t)
         /\ \A t \in last.tiers :
                /\ SafeLoad(fs[PathOf(c, t)].text).kind = "map"
                /\ SafeLoad(fs[PathOf(c, t)].text).m = src[c][t]) =>
            obj' = ApplyInOrder(defaults[c], CurrentContents(c),
                                IF last'.override
                                THEN <<"system", "user", "local", "system">>
                                ELSE <<"system", "user", "local">>)
      ]_vars

\* ----------------------------------------------------------------- C16
\* C16: whatever MooseDirs objects were made before, each object's
\* system_config and user_config is the base directory joined with its
\* own name and then its qualifier when one was supplied.
C16_PathsDeterministic ==
    \A i \in 1..Len(dirs) :
        LET own == <<dirs[i].name>>
                   \o (IF dirs[i].append # "none" THEN <<dirs[i].append>> ELSE <<>>)
        IN /\ SystemConfig = <<"system_base">> \o own
           /\ UserConfig = <<"user_base">> \o own

\* ----------------------------------------------------------------- C17
\* C17: write() on a Configurator changes neither the unified mapping nor
\* any source's obj or meta; the file of each tier it writes then holds
\* the dump of that tier's obj overwritten by its meta, so that with an
\* empty meta the file decodes to exactly the tier's obj.
C17_WritePassThrough ==
    [][\A c \in Insts :
        (IsCall /\ last'.op = "write" /\ last'.c = c) =>
            /\ obj' = obj /\ src' = src /\ meta' = meta
            /\ ~last'.raised
            /\ \A t \in last'.tiers :
                LET text == fs'[PathOf(c, t)].text
                IN /\ text = SafeDump(DictUpdate(src[c][t], meta[c][t]))
                   /\ meta[c][t] = EmptyMap =>
                        /\ SafeLoad(text).kind = "map"
                        /\ SafeLoad(text).m = src[c][t]
      ]_vars

\* write() has written a tier whose meta overrides a key of its obj, while
\* the unified mapping holds something else than what was written.
C17_Witness ==
    \E c \in Insts, t \in Tiers, k \in Keys :
        /\ last.op = "write" /\ last.c = c /\ t \in last.tiers
        /\ k \in DOMAIN src[c][t] /\ k \in DOMAIN meta[c][t]
        /\ src[c][t][k] # meta[c][t][k]
        /\ obj # DictUpdate(src[c][t], meta[c][t])
        /\ obj # src[c][t]
        /\ fs[PathOf(c, t)].text = SafeDump(DictUpdate(src[c][t], meta[c][t]))

\* ----------------------------------------------------------------- C18
\* The values a flag has when its variable was set to a false text.
FalseTexts == {"str_False", "str_0"}

\* C18: a flag whose variable was set to a false text at process start is
\* off, and an unset variable leaves the default.  With SYSTEM_OVERRIDE
\* set to a false text, or unset, a call that runs update() merges system,
\* user, local and does not apply system again; with LOCAL_FILE_LOAD set to
\* a false text read() and write() do not take the local tier, and with it
\* unset read() takes a readable local file.
C18_EnvFalseValues ==
    [][\A c \in Insts :
        (IsCall /\ last'.c = c /\ ~last'.raised) =>
            /\ (/\ last'.updated
                /\ flags["SYSTEM_OVERRIDE"] \in FalseTexts \cup {"False"}) =>
                    obj' = ApplyInOrder(IF last'.op = "construct"
                                        THEN WithDefaults(obj, defaults'[c])
                                        ELSE obj,
                                        src'[c], <<"system", "user", "local">>)
            /\ (/\ last'.op \in {"construct", "read", "write"}
                /\ flags["LOCAL_FILE_LOAD"] \in FalseTexts) =>
                    "local" \notin last'.tiers
            /\ (/\ last'.op \in {"construct", "read"}
                /\ flags["LOCAL_FILE_LOAD"] = "True"
                /\ IsReadable(fs[StepPath(c, "local")])) =>
                    "local" \in last'.tiers
      ]_vars

====
